---- MODULE Spec2Model ----
(***************************************************************************)
(* Model of scripts/fetch_tolls.py: the toll-booth / highway matcher       *)
(* (parse_elements), the PostGIS upsert (save_to_db) and the batch         *)
(* pipeline of the __main__ block.                                         *)
(*                                                                         *)
(* Python values: a dict is a TLA+ function (a record) whose DOMAIN is the *)
(* set of keys present; an insertion-ordered dict whose iteration order    *)
(* matters is a sequence of [key, val] entries; None is the value None     *)
(* below; a float is the token of its literal ("10.0"), since the program  *)
(* only copies and null-tests coordinates.                                 *)
(***************************************************************************)
EXTENDS Integers, Sequences, FiniteSets, TLC

VARIABLES
    pc,          \* position of the program
    elements,    \* the fetched element list (data.get('elements', []))
    toll_nodes,  \* parse_elements: dict osm id -> toll node
    ways,        \* parse_elements: dict way id -> highway attributes
    way_nodes,   \* parse_elements: dict way id -> node id list
    rows,        \* parse_elements: the list of output records
    matched,     \* parse_elements: the coverage counter
    df,          \* __main__: the data frame (a sequence of records)
    csv,         \* the rows this run wrote to data/toll_booths_overpass.csv
    store,       \* committed rows of table toll_booths
    txn,         \* rows as seen inside the open transaction of save_to_db
    idx,         \* save_to_db: number of rows of df already upserted
    inserted,    \* save_to_db: counter
    updated,     \* save_to_db: counter
    saved,       \* save_to_db: <<>> until it returns, then <<TRUE>> or <<FALSE>>
    exit_code,   \* exit status of the last run that ended: <<>> (none), <<0>>, <<1>>
    trace,       \* history: the events of the current run, in order
    before,      \* history: store when the current run started
    rerun        \* history: this run re-fetched the elements of a run that
                 \* ended with exit status 0 (FALSE otherwise)

vars == <<pc, elements, toll_nodes, ways, way_nodes, rows, matched, df, csv,
          store, txn, idx, inserted, updated, saved, exit_code, trace, before,
          rerun>>

----------------------------------------------------------------------------
(* Python value helpers *)

\* Python None
None == "None"

\* Python truthiness of a string-or-None value: None and "" are falsy
Truthy(v) == v # None /\ v # ""

\* Python `a or b`
PyOr(a, b) == IF Truthy(a) THEN a ELSE b

\* dict.get(k): None when the key is absent
Get(d, k) == IF k \in DOMAIN d THEN d[k] ELSE None

\* dict.get(k, default)
GetD(d, k, default) == IF k \in DOMAIN d THEN d[k] ELSE default

\* the empty dict {}
EmptyDict == [k \in {} |-> None]

\* `x in lst` for a list
InList(x, lst) == \E i \in 1..Len(lst) : lst[i] = x

\* k in d, for an insertion-ordered dict
HasKey(d, k) == \E i \in 1..Len(d) : d[i].key = k

\* faulty variant of DictSet: every assignment adds an entry, as a list append would
DictSet_Append(d, k, v) == Append(d, [key |-> k, val |-> v])

\* d[k] = v for an insertion-ordered dict: an existing key keeps its place
DictSet(d, k, v) ==
    IF HasKey(d, k)
    THEN [i \in 1..Len(d) |-> IF d[i].key = k THEN [key |-> k, val |-> v] ELSE d[i]]
    ELSE Append(d, [key |-> k, val |-> v])

\* d.get(k) for an insertion-ordered dict whose values are dicts: the result
\* is <<>> for Python's None and <<v>> for a value v
DictGet(d, k) ==
    IF HasKey(d, k) THEN <<d[CHOOSE i \in 1..Len(d) : d[i].key = k].val>> ELSE <<>>

----------------------------------------------------------------------------
(* parse_elements *)

\* the value stored in toll_nodes for a toll-booth node
TollNode(el) ==
    [osm_id |-> Get(el, "id"), lat |-> Get(el, "lat"), lon |-> Get(el, "lon"),
     tags |-> GetD(el, "tags", EmptyDict)]

\* faulty variant of WayInfo: the name is the name tag alone, without the ref fallback
WayInfo_NameOnly(tags) ==
    [highway |-> Get(tags, "highway"),
     name |-> Get(tags, "name"),
     ref |-> Get(tags, "ref"),
     toll |-> Get(tags, "toll"),
     operator |-> Get(tags, "operator")]

\* the value stored in ways for a highway way
WayInfo(tags) ==
    [highway |-> Get(tags, "highway"),
     name |-> PyOr(Get(tags, "name"), Get(tags, "ref")),
     ref |-> Get(tags, "ref"),
     toll |-> Get(tags, "toll"),
     operator |-> Get(tags, "operator")]

\* the toll-booth test of a node's tags
IsTollBooth(tags) == Get(tags, "barrier") = "toll_booth"

\* the highway test of a way's tags
IsHighway(tags) == Truthy(Get(tags, "highway"))

\* one iteration of the first loop, on the dicts m = [toll_nodes, ways, way_nodes]
AddElement(m, el) ==
    LET el_type == Get(el, "type")
        el_id == Get(el, "id")
        tags == GetD(el, "tags", EmptyDict)
    IN  IF el_type = "node"
        THEN IF IsTollBooth(tags)
             THEN [m EXCEPT !.toll_nodes = DictSet(@, el_id, TollNode(el))]
             ELSE m
        ELSE IF el_type = "way"
        THEN IF IsHighway(tags)
             THEN [m EXCEPT !.ways = DictSet(@, el_id, WayInfo(tags)),
                            !.way_nodes = DictSet(@, el_id, GetD(el, "nodes", <<>>))]
             ELSE m
        ELSE m

\* the first loop: for el in elements
RECURSIVE BuildMaps(_, _)
BuildMaps(m, els) ==
    IF els = <<>> THEN m ELSE BuildMaps(AddElement(m, Head(els)), Tail(els))

\* faulty variant of FirstWayIndex: the loop lacks its break, the last way wins
FirstWayIndex_NoBreak(toll_id, wn) ==
    IF \E i \in 1..Len(wn) : InList(toll_id, wn[i].val)
    THEN CHOOSE i \in 1..Len(wn) :
            /\ InList(toll_id, wn[i].val)
            /\ \A j \in (i + 1)..Len(wn) : ~InList(toll_id, wn[j].val)
    ELSE 0

\* the inner loop: the index in way_nodes of the first way whose node list
\* holds toll_id (0: the loop ended without a break)
FirstWayIndex(toll_id, wn) ==
    IF \E i \in 1..Len(wn) : InList(toll_id, wn[i].val)
    THEN CHOOSE i \in 1..Len(wn) :
            /\ InList(toll_id, wn[i].val)
            /\ \A j \in 1..(i - 1) : ~InList(toll_id, wn[j].val)
    ELSE 0

\* highway_info after the inner loop: <<>> for None, <<v>> for a value of ways
HighwayInfo(toll_id, w, wn) ==
    LET i == FirstWayIndex(toll_id, wn)
    IN  IF i = 0 THEN <<>> ELSE DictGet(w, wn[i].key)

\* faulty variant of TollName: the highway's name is preferred to the toll node's ref
TollName_HighwayBeforeRef(tags, highway_info) ==
    PyOr(Get(tags, "name"),
         PyOr(IF highway_info # <<>> THEN highway_info[1].name ELSE None,
              Get(tags, "ref")))

\* toll_name
TollName(tags, highway_info) ==
    PyOr(Get(tags, "name"),
         PyOr(Get(tags, "ref"),
              IF highway_info # <<>> THEN highway_info[1].name ELSE None))

\* operator
Operator(tags, highway_info) ==
    PyOr(Get(tags, "operator"),
         IF highway_info # <<>> THEN highway_info[1].operator ELSE None)

\* the record appended to rows for one toll node
MakeRow(toll_data, highway_info) ==
    [osm_id |-> toll_data.osm_id,
     name |-> TollName(toll_data.tags, highway_info),
     operator |-> Operator(toll_data.tags, highway_info),
     highway_type |-> IF highway_info # <<>> THEN highway_info[1].highway ELSE None,
     highway_name |-> IF highway_info # <<>> THEN highway_info[1].name ELSE None,
     highway_ref |-> IF highway_info # <<>> THEN highway_info[1].ref ELSE None,
     lat |-> toll_data.lat,
     lon |-> toll_data.lon]

\* the second loop: one record per entry of toll_nodes, in its order
MatchRows(tn, w, wn) ==
    [i \in 1..Len(tn) |-> MakeRow(tn[i].val, HighwayInfo(tn[i].key, w, wn))]

\* the counter matched after the second loop
MatchedCount(tn, w, wn) ==
    Cardinality({i \in 1..Len(tn) : HighwayInfo(tn[i].key, w, wn) # <<>>})

\* parse_elements(elements): its locals at the return
parse_elements(els) ==
    LET m == BuildMaps([toll_nodes |-> <<>>, ways |-> <<>>, way_nodes |-> <<>>], els)
    IN  [toll_nodes |-> m.toll_nodes, ways |-> m.ways, way_nodes |-> m.way_nodes,
         rows |-> MatchRows(m.toll_nodes, m.ways, m.way_nodes),
         matched |-> MatchedCount(m.toll_nodes, m.ways, m.way_nodes)]

----------------------------------------------------------------------------
(* The fetched data: elements of an Overpass response *)

\* a node element with tags ("out body")
Node(id, tags, lat, lon) ==
    [type |-> "node", id |-> id, tags |-> tags, lat |-> lat, lon |-> lon]

\* a node element without coordinates
NodeNoCoords(id, tags) == [type |-> "node", id |-> id, tags |-> tags]

\* a skeleton copy of a node ("out skel"): no tags key
SkelNode(id, lat, lon) == [type |-> "node", id |-> id, lat |-> lat, lon |-> lon]

\* a way element
Way(id, tags, nodes) == [type |-> "way", id |-> id, tags |-> tags, nodes |-> nodes]

\* a way element without a nodes key
WayNoNodes(id, tags) == [type |-> "way", id |-> id, tags |-> tags]

\* tag dicts of nodes
NodeTagPool ==
    { [barrier |-> "toll_booth", name |-> "Booth A"],
      [barrier |-> "toll_booth"],
      [barrier |-> "toll_booth", name |-> "", ref |-> "T7", operator |-> "NHAI"],
      [barrier |-> "toll_booth", name |-> "", operator |-> ""],
      [barrier |-> "gate", name |-> "Gate"] }

\* tag dicts of ways
WayTagPool ==
    { [highway |-> "trunk", ref |-> "NH44"],
      [highway |-> "primary", name |-> "Y", ref |-> "NH1", operator |-> "OpW"],
      [highway |-> "trunk", name |-> "", ref |-> "R9"],
      [highway |-> "", name |-> "Z"],
      [name |-> "Z", ref |-> "R9"] }

\* the elements parse_elements is run on
ParsePool ==
    {Node(1, t, "10.0", "20.0") : t \in NodeTagPool}
    \cup {NodeNoCoords(2, t) : t \in NodeTagPool}
    \cup {SkelNode(1, "10.0", "20.0")}
    \cup {Way(100, t, <<1, 2, 3>>) : t \in WayTagPool}
    \cup {Way(101, t, <<2>>) : t \in WayTagPool}
    \cup {WayNoNodes(101, [highway |-> "trunk"])}

\* the longest element list parse_elements is run on
MaxElems == 3

\* all lists of at most n members of S
SeqsUpTo(S, n) == UNION {[1..k -> S] : k \in 0..n}

----------------------------------------------------------------------------
(* Specification of parse_elements alone: it is called on any element list *)

ParseInit ==
    /\ pc = "parse"
    /\ elements \in SeqsUpTo(ParsePool, MaxElems)
    /\ toll_nodes = <<>>
    /\ ways = <<>>
    /\ way_nodes = <<>>
    /\ rows = <<>>
    /\ matched = 0
    /\ df = <<>>
    /\ csv = <<>>
    /\ store = {}
    /\ txn = {}
    /\ idx = 0
    /\ inserted = 0
    /\ updated = 0
    /\ saved = <<>>
    /\ exit_code = <<>>
    /\ trace = <<>>
    /\ before = {}
    /\ rerun = FALSE

\* the call parse_elements(elements), to its return
ParseCall ==
    /\ pc = "parse"
    /\ LET r == parse_elements(elements)
       IN  /\ toll_nodes' = r.toll_nodes
           /\ ways' = r.ways
           /\ way_nodes' = r.way_nodes
           /\ rows' = r.rows
           /\ matched' = r.matched
    /\ pc' = "parsed"
    /\ UNCHANGED <<elements, df, csv, store, txn, idx, inserted, updated, saved,
                   exit_code, trace, before, rerun>>

ParseNext == ParseCall

SpecParse == ParseInit /\ [][ParseNext]_vars

----------------------------------------------------------------------------
(* save_to_db: the table toll_booths and the upsert *)

\* the row the INSERT statement builds from a record of df; the serial id and
\* the timestamps of the table are left out
DbRow(r) ==
    LET lat == IF r.lat # None THEN r.lat ELSE None
        lon == IF r.lon # None THEN r.lon ELSE None
    IN  [osm_id |-> r.osm_id, name |-> r.name, operator |-> r.operator,
         highway_type |-> r.highway_type, highway_name |-> r.highway_name,
         highway_ref |-> r.highway_ref, lat |-> lat, lon |-> lon,
         geom |-> [x |-> lon, y |-> lat, srid |-> "4326"],
         source |-> "overpass"]

\* faulty variant of IsInsert: every upsert is reported as an insert
IsInsert_Always(t, r) == TRUE

\* RETURNING (xmax = 0): no row with the osm_id existed, the row was inserted
IsInsert(t, r) == \A row \in t : row.osm_id # r.osm_id

\* faulty variant of Upsert: ON CONFLICT (osm_id) DO NOTHING
Upsert_DoNothing(t, r) == IF IsInsert(t, r) THEN t \cup {DbRow(r)} ELSE t

\* INSERT ... ON CONFLICT (osm_id) DO UPDATE SET ..., on the rows t. The update
\* sets every column but osm_id and source (and created_at, not modelled).
Upsert(t, r) ==
    IF IsInsert(t, r)
    THEN t \cup {DbRow(r)}
    ELSE {IF row.osm_id = r.osm_id
          THEN [DbRow(r) EXCEPT !.source = row.source]
          ELSE row : row \in t}

----------------------------------------------------------------------------
(* The pipeline of the __main__ block *)

\* the largest response the pipeline fetches: toll booth 1 at two positions,
\* toll booth 2 with and without a longitude, toll booth 3 and their highway
FullResponse ==
    << Node(1, [barrier |-> "toll_booth", name |-> "Booth A"], "10.0", "20.0"),
       Node(1, [barrier |-> "toll_booth", name |-> "Booth A"], "10.5", "20.0"),
       Node(2, [barrier |-> "toll_booth"], "30.0", "40.0"),
       [type |-> "node", id |-> 2, tags |-> [barrier |-> "toll_booth"], lat |-> "30.0"],
       Node(3, [barrier |-> "toll_booth", ref |-> "T7"], "50.0", "60.0"),
       Way(100, [highway |-> "trunk", ref |-> "NH44"], <<1, 2, 3>>) >>

\* the most elements of FullResponse one response holds
MaxFetched == 3

\* the members of FullResponse at the positions I, in their order
SubList(I) ==
    LET f[k \in 0..Len(FullResponse)] ==
            IF k = 0 THEN <<>>
            ELSE IF k \in I THEN Append(f[k - 1], FullResponse[k]) ELSE f[k - 1]
    IN  f[Len(FullResponse)]

\* the responses the pipeline fetches
Responses ==
    {SubList(I) : I \in {J \in SUBSET (1..Len(FullResponse)) : Cardinality(J) <= MaxFetched}}

\* faulty variant of DropNa: dropna(subset=['lat'])
DropNa_LatOnly(frame) == SelectSeq(frame, LAMBDA r : r.lat # None)

\* df.dropna(subset=['lat', 'lon']) on a frame that has these columns
DropNa(frame) == SelectSeq(frame, LAMBDA r : r.lat # None /\ r.lon # None)

Log(event) == trace' = Append(trace, event)

Init ==
    /\ pc = "start"
    /\ elements = <<>>
    /\ toll_nodes = <<>>
    /\ ways = <<>>
    /\ way_nodes = <<>>
    /\ rows = <<>>
    /\ matched = 0
    /\ df = <<>>
    /\ csv = <<>>
    /\ store = {}
    /\ txn = {}
    /\ idx = 0
    /\ inserted = 0
    /\ updated = 0
    /\ saved = <<>>
    /\ exit_code = <<>>
    /\ trace = <<>>
    /\ before = {}
    /\ rerun = FALSE

\* Step 1: fetch_overpass(query) returns and data.get('elements', []) is taken
FetchOk ==
    /\ pc = "start"
    /\ \E e \in Responses :
          /\ elements' = e
          /\ rerun' = (exit_code = <<0>> /\ e = elements)
    /\ exit_code' = <<>>
    /\ trace' = <<"fetch_start", "fetch_ok">>
    /\ pc' = "parse"
    /\ UNCHANGED <<toll_nodes, ways, way_nodes, rows, matched, df, csv, store,
                   txn, idx, inserted, updated, saved, before>>

\* Step 1 raises (requests.post, raise_for_status, r.json): sys.exit(1)
FetchFail ==
    /\ pc = "start"
    /\ exit_code' = <<1>>
    /\ rerun' = FALSE
    /\ trace' = <<"fetch_start", "fetch_failed">>
    /\ pc' = "exited"
    /\ UNCHANGED <<elements, toll_nodes, ways, way_nodes, rows, matched, df, csv,
                   store, txn, idx, inserted, updated, saved, before>>

\* Step 2: df = parse_elements(elements)
Parse ==
    /\ pc = "parse"
    /\ LET r == parse_elements(elements)
       IN  /\ toll_nodes' = r.toll_nodes
           /\ ways' = r.ways
           /\ way_nodes' = r.way_nodes
           /\ rows' = r.rows
           /\ matched' = r.matched
           /\ df' = r.rows
    /\ trace' = trace \o <<"match_start", "match_done">>
    /\ pc' = "dropna"
    /\ UNCHANGED <<elements, csv, store, txn, idx, inserted, updated, saved,
                   exit_code, before, rerun>>

\* Step 2: df = df.dropna(subset=['lat', 'lon'])
DropNaOk ==
    /\ pc = "dropna"
    /\ Len(df) > 0
    /\ df' = DropNa(df)
    /\ Log("dropna_done")
    /\ pc' = "check"
    /\ UNCHANGED <<elements, toll_nodes, ways, way_nodes, rows, matched, csv,
                   store, txn, idx, inserted, updated, saved, exit_code, before,
                   rerun>>

\* Step 2 on no rows at all: pd.DataFrame([]) has no columns and dropna raises
\* KeyError(['lat', 'lon']); the exception is uncaught and the status is 1
DropNaKeyError ==
    /\ pc = "dropna"
    /\ Len(df) = 0
    /\ exit_code' = <<1>>
    /\ Log("dropna_raised")
    /\ pc' = "exited"
    /\ UNCHANGED <<elements, toll_nodes, ways, way_nodes, rows, matched, df, csv,
                   store, txn, idx, inserted, updated, saved, before, rerun>>

\* faulty variant of ExitEmpty: the empty frame is not checked and the run goes on
ExitEmpty_Continue ==
    /\ pc = "check"
    /\ Len(df) = 0
    /\ csv' = df
    /\ trace' = trace \o <<"csv_start", "csv_ok">>
    /\ pc' = "save_to_db"
    /\ UNCHANGED <<elements, toll_nodes, ways, way_nodes, rows, matched, df,
                   store, txn, idx, inserted, updated, saved, exit_code, before,
                   rerun>>

\* if len(df) == 0: sys.exit(1)
ExitEmpty ==
    /\ pc = "check"
    /\ Len(df) = 0
    /\ exit_code' = <<1>>
    /\ Log("no_valid_records")
    /\ pc' = "exited"
    /\ UNCHANGED <<elements, toll_nodes, ways, way_nodes, rows, matched, df, csv,
                   store, txn, idx, inserted, updated, saved, before, rerun>>

\* Step 4: df.to_csv(...) writes every row of df
SaveCsv ==
    /\ pc = "check"
    /\ Len(df) # 0
    /\ csv' = df
    /\ trace' = trace \o <<"csv_start", "csv_ok">>
    /\ pc' = "save_to_db"
    /\ UNCHANGED <<elements, toll_nodes, ways, way_nodes, rows, matched, df,
                   store, txn, idx, inserted, updated, saved, exit_code, before,
                   rerun>>

\* faulty variant of SaveCsvFail: the exception ends the run with status 1
SaveCsvFail_Fatal ==
    /\ pc = "check"
    /\ Len(df) # 0
    /\ \E k \in 0..(Len(df) - 1) : csv' = SubSeq(df, 1, k)
    /\ trace' = trace \o <<"csv_start", "csv_failed">>
    /\ exit_code' = <<1>>
    /\ pc' = "exited"
    /\ UNCHANGED <<elements, toll_nodes, ways, way_nodes, rows, matched, df,
                   store, txn, idx, inserted, updated, saved, before, rerun>>

\* Step 4 raises (makedirs, open or a write): the exception is printed and the
\* run goes on; the file holds the rows written before the failure
SaveCsvFail ==
    /\ pc = "check"
    /\ Len(df) # 0
    /\ \E k \in 0..(Len(df) - 1) : csv' = SubSeq(df, 1, k)
    /\ trace' = trace \o <<"csv_start", "csv_failed">>
    /\ pc' = "save_to_db"
    /\ UNCHANGED <<elements, toll_nodes, ways, way_nodes, rows, matched, df,
                   store, txn, idx, inserted, updated, saved, exit_code, before,
                   rerun>>

\* faulty variant of ReturnFalse: every statement autocommits, the upserts made before
\* the failure stay
ReturnFalse_PartialCommit(event) ==
    /\ store' = txn
    /\ saved' = <<FALSE>>
    /\ exit_code' = <<1>>
    /\ Log(event)
    /\ pc' = "exited"
    /\ UNCHANGED <<elements, toll_nodes, ways, way_nodes, rows, matched, df, csv,
                   txn, idx, inserted, updated, before, rerun>>

\* save_to_db returns False from its except clause and __main__ calls
\* sys.exit(1); the transaction, if one is open, was rolled back
ReturnFalse(event) ==
    /\ txn' = store
    /\ saved' = <<FALSE>>
    /\ exit_code' = <<1>>
    /\ Log(event)
    /\ pc' = "exited"
    /\ UNCHANGED <<elements, toll_nodes, ways, way_nodes, rows, matched, df, csv,
                   store, idx, inserted, updated, before, rerun>>

\* save_to_db: create_engine, engine.connect(), SELECT 1
Connect ==
    /\ pc = "save_to_db"
    /\ Log("db_connect")
    /\ pc' = "create_table"
    /\ UNCHANGED <<elements, toll_nodes, ways, way_nodes, rows, matched, df, csv,
                   store, txn, idx, inserted, updated, saved, exit_code, before,
                   rerun>>

\* save_to_db: the connection test raises
ConnectFail ==
    /\ pc = "save_to_db"
    /\ ReturnFalse("db_connect_failed")

\* create_table_if_not_exists(engine), then engine.begin() and the counters:
\* CREATE TABLE / INDEX IF NOT EXISTS leave the rows of the table alone
CreateTable ==
    /\ pc = "create_table"
    /\ txn' = store
    /\ idx' = 0
    /\ inserted' = 0
    /\ updated' = 0
    /\ trace' = trace \o <<"db_create_table", "db_begin">>
    /\ pc' = "upsert"
    /\ UNCHANGED <<elements, toll_nodes, ways, way_nodes, rows, matched, df, csv,
                   store, saved, exit_code, before, rerun>>

\* create_table_if_not_exists raises
CreateTableFail ==
    /\ pc = "create_table"
    /\ ReturnFalse("db_create_table_failed")

\* one iteration of `for _, r in df.iterrows()`: the upsert of row idx + 1
UpsertRow ==
    /\ pc = "upsert"
    /\ idx < Len(df)
    /\ LET r == df[idx + 1]
       IN  /\ txn' = Upsert(txn, r)
           /\ IF IsInsert(txn, r)
              THEN inserted' = inserted + 1 /\ updated' = updated
              ELSE updated' = updated + 1 /\ inserted' = inserted
    /\ idx' = idx + 1
    /\ UNCHANGED <<pc, elements, toll_nodes, ways, way_nodes, rows, matched, df,
                   csv, store, saved, exit_code, trace, before, rerun>>

\* the statement for row idx + 1 raises: engine.begin() rolls the transaction
\* back and the except clause returns False
UpsertRowFail ==
    /\ pc = "upsert"
    /\ idx < Len(df)
    /\ ReturnFalse("db_row_failed")

\* the loop is over: engine.begin() commits, save_to_db returns True and
\* __main__ runs to its end (status 0)
Commit ==
    /\ pc = "upsert"
    /\ idx = Len(df)
    /\ store' = txn
    /\ saved' = <<TRUE>>
    /\ exit_code' = <<0>>
    /\ Log("db_commit")
    /\ pc' = "exited"
    /\ UNCHANGED <<elements, toll_nodes, ways, way_nodes, rows, matched, df, csv,
                   txn, idx, inserted, updated, before, rerun>>

\* the tool is run again: a new process, the same database
Restart ==
    /\ pc = "exited"
    /\ pc' = "start"
    /\ toll_nodes' = <<>>
    /\ ways' = <<>>
    /\ way_nodes' = <<>>
    /\ rows' = <<>>
    /\ matched' = 0
    /\ df' = <<>>
    /\ csv' = <<>>
    /\ txn' = store
    /\ idx' = 0
    /\ inserted' = 0
    /\ updated' = 0
    /\ saved' = <<>>
    /\ trace' = <<>>
    /\ before' = store
    /\ rerun' = FALSE
    /\ UNCHANGED <<elements, store, exit_code>>

Next ==
    \/ FetchOk
    \/ FetchFail
    \/ Parse
    \/ DropNaOk
    \/ DropNaKeyError
    \/ ExitEmpty
    \/ SaveCsv
    \/ SaveCsvFail
    \/ Connect
    \/ ConnectFail
    \/ CreateTable
    \/ CreateTableFail
    \/ UpsertRow
    \/ UpsertRowFail
    \/ Commit
    \/ Restart

Spec == Init /\ [][Next]_vars

----------------------------------------------------------------------------
(* Claims about parse_elements, checked under SpecParse *)

\* the input of the scenario: one toll-booth node and one highway way
ScenarioNode == Node(1, [barrier |-> "toll_booth", name |-> "Booth A"], "10.0", "20.0")
ScenarioWay == Way(100, [highway |-> "trunk", ref |-> "NH44"], <<1, 2, 3>>)
IsScenario ==
    elements = <<ScenarioNode, ScenarioWay>> \/ elements = <<ScenarioWay, ScenarioNode>>

\* C1 (as amended): on the scenario input parse_elements returns exactly one
\* record, {osm_id:1, name:"Booth A", operator:null, highway_type:"trunk",
\* highway_name:"NH44", highway_ref:"NH44", lat:10.0, lon:20.0}: the way has no
\* name tag, so its display name, and the record's highway_name, is its ref.
C1_ScenarioRecord ==
    (pc = "parsed" /\ IsScenario) =>
        rows = << [osm_id |-> 1, name |-> "Booth A", operator |-> None,
                   highway_type |-> "trunk", highway_name |-> "NH44",
                   highway_ref |-> "NH44", lat |-> "10.0", lon |-> "20.0"] >>

\* C1 as stated: the same record with highway_name null
C1_AsStated ==
    (pc = "parsed" /\ IsScenario) =>
        rows = << [osm_id |-> 1, name |-> "Booth A", operator |-> None,
                   highway_type |-> "trunk", highway_name |-> None,
                   highway_ref |-> "NH44", lat |-> "10.0", lon |-> "20.0"] >>

\* C1 witness: parse_elements has returned on the scenario input, with one record
C1_Witness == pc = "parsed" /\ IsScenario /\ Len(rows) = 1 /\ matched = 1

\* the indices of the node elements tagged barrier=toll_booth
TollElems ==
    {k \in 1..Len(elements) :
        /\ elements[k].type = "node"
        /\ "tags" \in DOMAIN elements[k]
        /\ "barrier" \in DOMAIN elements[k].tags
        /\ elements[k].tags.barrier = "toll_booth"}

\* the distinct ids of the toll-booth nodes of the input
TollIds == {elements[k].id : k \in TollElems}

\* C7: parse_elements outputs exactly one record per distinct id of a node
\* tagged barrier=toll_booth and none for any other node or any way: the
\* osm_ids of the records are exactly those ids, each once.
C7_OneRecordPerTollId ==
    pc = "parsed" =>
        /\ {rows[i].osm_id : i \in 1..Len(rows)} = TollIds
        /\ Len(rows) = Cardinality(TollIds)
        /\ \A i, j \in 1..Len(rows) : rows[i].osm_id = rows[j].osm_id => i = j

\* C7 witness: an input with a toll-booth id given twice with tags and once as
\* a tagless skeleton copy has produced one record
C7_Witness ==
    /\ pc = "parsed"
    /\ \E i, j \in TollElems : i < j /\ elements[i].id = elements[j].id
    /\ \E k \in 1..Len(elements) :
          elements[k].type = "node" /\ "tags" \notin DOMAIN elements[k]
    /\ Len(rows) = 1

\* the tags of the toll node behind record i: toll_nodes and rows are parallel
TollTagsOf(i) == toll_nodes[i].val.tags

\* the elements that are ways with a non-empty highway tag
HighwayElems ==
    {k \in 1..Len(elements) :
        /\ elements[k].type = "way"
        /\ "highway" \in DOMAIN elements[k].tags
        /\ elements[k].tags.highway # ""}

\* the elements that are ways with a highway tag, empty or not
HighwayTaggedElems ==
    {k \in 1..Len(elements) :
        elements[k].type = "way" /\ "highway" \in DOMAIN elements[k].tags}

\* the node-id list of a way element
NodesOf(k) == IF "nodes" \in DOMAIN elements[k] THEN elements[k].nodes ELSE <<>>

\* the ways of W that contain node id t
Containing(W, t) == {k \in W : \E n \in 1..Len(NodesOf(k)) : NodesOf(k)[n] = t}

\* the least member of a non-empty set of indices
Least(S) == CHOOSE k \in S : \A l \in S : k <= l

\* the greatest member of a non-empty set of indices
Greatest(S) == CHOOSE k \in S : \A l \in S : k >= l

\* the way ids of the input are distinct
WayIdsDistinct ==
    \A k, l \in 1..Len(elements) :
        (elements[k].type = "way" /\ elements[l].type = "way"
            /\ elements[k].id = elements[l].id) => k = l

\* a tag's value when the tag is present and non-empty, else null
NonEmptyTag(tags, key) ==
    IF key \in DOMAIN tags /\ tags[key] # "" THEN tags[key] ELSE None

\* a tag's value when the tag is present, else null
PresentTag(tags, key) == IF key \in DOMAIN tags THEN tags[key] ELSE None

\* C10 (as amended): in an input whose way ids are distinct, a record's highway
\* fields are those of the first way, in element order, that carries a
\* non-empty highway tag and whose node list contains the toll node's id; ways
\* without such a tag are never the source; with no such way the three fields
\* are null, and matched counts exactly the toll nodes that have such a way.
C10_FirstHighwayWay ==
    (pc = "parsed" /\ WayIdsDistinct) =>
        /\ \A i \in 1..Len(rows) :
              LET C == Containing(HighwayElems, rows[i].osm_id)
              IN  IF C = {}
                  THEN /\ rows[i].highway_type = None
                       /\ rows[i].highway_name = None
                       /\ rows[i].highway_ref = None
                  ELSE LET t == elements[Least(C)].tags
                       IN  /\ rows[i].highway_type = t.highway
                           /\ rows[i].highway_name =
                                IF NonEmptyTag(t, "name") # None
                                THEN t.name ELSE PresentTag(t, "ref")
                           /\ rows[i].highway_ref = PresentTag(t, "ref")
        /\ matched = Cardinality({t \in TollIds : Containing(HighwayElems, t) # {}})

\* C10 as stated: the same with "carries a highway tag" (possibly empty)
C10_AsStated ==
    (pc = "parsed" /\ WayIdsDistinct) =>
        /\ \A i \in 1..Len(rows) :
              LET C == Containing(HighwayTaggedElems, rows[i].osm_id)
              IN  IF C = {}
                  THEN /\ rows[i].highway_type = None
                       /\ rows[i].highway_name = None
                       /\ rows[i].highway_ref = None
                  ELSE LET t == elements[Least(C)].tags
                       IN  /\ rows[i].highway_type = t.highway
                           /\ rows[i].highway_name =
                                IF NonEmptyTag(t, "name") # None
                                THEN t.name ELSE PresentTag(t, "ref")
                           /\ rows[i].highway_ref = PresentTag(t, "ref")
        /\ matched = Cardinality({t \in TollIds : Containing(HighwayTaggedElems, t) # {}})

\* C10 witness: a toll node contained in a way without a non-empty highway tag
\* that comes first and in two highway ways after it took the fields of the
\* first highway way
C10_Witness ==
    /\ pc = "parsed"
    /\ WayIdsDistinct
    /\ \E i \in 1..Len(rows) :
          LET C == Containing(HighwayElems, rows[i].osm_id)
              A == Containing({k \in 1..Len(elements) : elements[k].type = "way"},
                              rows[i].osm_id)
          IN  /\ Cardinality(C) >= 1
              /\ A # C
              /\ Least(A) < Least(C)
              /\ rows[i].highway_type = elements[Least(C)].tags.highway

\* the tags of the way matched to record i (<<>>: no way matched): the way
\* element stored under the first key of way_nodes whose list holds the id
MatchedWayTags(i) ==
    LET S == {j \in 1..Len(way_nodes) :
                \E n \in 1..Len(way_nodes[j].val) : way_nodes[j].val[n] = rows[i].osm_id}
    IN  IF S = {} THEN <<>>
        ELSE <<elements[Greatest({k \in HighwayElems :
                            elements[k].id = way_nodes[Least(S)].key})].tags>>

\* C8 (as amended): a record's name is the toll node's name tag when present
\* and non-empty, otherwise its ref tag when present and non-empty, otherwise
\* the matched way's display name (its name tag when present and non-empty,
\* else its ref tag), otherwise null; its operator is the toll node's operator
\* tag when present and non-empty, otherwise the matched way's operator tag,
\* otherwise null.
C8_NamePrecedence ==
    pc = "parsed" =>
        \A i \in 1..Len(rows) :
            LET tt == TollTagsOf(i)
                mw == MatchedWayTags(i)
            IN  /\ rows[i].name =
                     IF NonEmptyTag(tt, "name") # None THEN tt.name
                     ELSE IF NonEmptyTag(tt, "ref") # None THEN tt.ref
                     ELSE IF mw # <<>>
                          THEN IF NonEmptyTag(mw[1], "name") # None
                               THEN mw[1].name ELSE PresentTag(mw[1], "ref")
                          ELSE None
                /\ rows[i].operator =
                     IF NonEmptyTag(tt, "operator") # None THEN tt.operator
                     ELSE IF mw # <<>> THEN PresentTag(mw[1], "operator")
                     ELSE None

\* C8 as stated: the same with "present" for "present and non-empty"
C8_AsStated ==
    pc = "parsed" =>
        \A i \in 1..Len(rows) :
            LET tt == TollTagsOf(i)
                mw == MatchedWayTags(i)
            IN  /\ rows[i].name =
                     IF "name" \in DOMAIN tt THEN tt.name
                     ELSE IF "ref" \in DOMAIN tt THEN tt.ref
                     ELSE IF mw # <<>>
                          THEN IF "name" \in DOMAIN mw[1]
                               THEN mw[1].name ELSE PresentTag(mw[1], "ref")
                          ELSE None
                /\ rows[i].operator =
                     IF "operator" \in DOMAIN tt THEN tt.operator
                     ELSE IF mw # <<>> THEN PresentTag(mw[1], "operator")
                     ELSE None

\* C8 witness: a toll node named "Booth A" and a toll node with neither name
\* nor ref are both matched to a way named "Y"; the first record is named
\* "Booth A", the second "Y" and takes the way's operator
C8_Witness ==
    /\ pc = "parsed"
    /\ \E i, j \in 1..Len(rows) :
          /\ MatchedWayTags(i) # <<>>
          /\ MatchedWayTags(j) # <<>>
          /\ PresentTag(MatchedWayTags(i)[1], "name") = "Y"
          /\ PresentTag(MatchedWayTags(j)[1], "name") = "Y"
          /\ PresentTag(TollTagsOf(i), "name") = "Booth A"
          /\ rows[i].name = "Booth A"
          /\ DOMAIN TollTagsOf(j) = {"barrier"}
          /\ rows[j].name = "Y"
          /\ rows[j].operator = "OpW"

----------------------------------------------------------------------------
(* Claims about the pipeline and save_to_db, checked under Spec *)

\* the event has happened in the current run
Happened(e) == \E i \in 1..Len(trace) : trace[i] = e

\* the osm_ids of a set of table rows
Ids(t) == {row.osm_id : row \in t}

\* the osm_ids of the batch
BatchIds == {df[i].osm_id : i \in 1..Len(df)}

\* the records of the Matcher's output with both coordinates
ValidRows == {rows[i] : i \in {j \in 1..Len(rows) : rows[j].lat # None /\ rows[j].lon # None}}

\* C2: a run on the elements of the run before it, which ran to its end with
\* status 0, inserts nothing: the stored ids and the row count stay those the
\* first run left, and every row of its batch is counted as updated.
C2_SecondRunInsertsNothing ==
    rerun =>
        /\ inserted = 0
        /\ Ids(txn) = Ids(before)
        /\ Ids(store) = Ids(before)
        /\ Cardinality(store) = Cardinality(before)
        /\ saved = <<TRUE>> => updated = Len(df)

\* C2 witness: the second run on the same elements has committed a batch of
\* two or more rows into a store that also holds a row of an earlier run
C2_Witness ==
    /\ rerun
    /\ saved = <<TRUE>>
    /\ Len(df) >= 2
    /\ updated = Len(df)
    /\ \E row \in store : row.osm_id \notin BatchIds

\* the row of the table a batch record must leave
RowOf(r) ==
    [osm_id |-> r.osm_id, name |-> r.name, operator |-> r.operator,
     highway_type |-> r.highway_type, highway_name |-> r.highway_name,
     highway_ref |-> r.highway_ref, lat |-> r.lat, lon |-> r.lon,
     geom |-> [x |-> r.lon, y |-> r.lat, srid |-> "4326"], source |-> "overpass"]

\* after a successful save_to_db: one row per batch record, with its values
\* and geometry; the other rows are those of before, unchanged
MergedBatch ==
    saved = <<TRUE>> =>
        /\ \A i \in 1..Len(df) :
              /\ RowOf(df[i]) \in store
              /\ Cardinality({row \in store : row.osm_id = df[i].osm_id}) = 1
        /\ {row \in store : row.osm_id \notin BatchIds}
              = {row \in before : row.osm_id \notin BatchIds}

\* C3: after a successful save_to_db every batch record has exactly one row
\* with its values and geometry (updated in place or inserted), every other
\* row is still present and unchanged, and no step of any run removes a stored
\* identifier.
C3_MergeAndKeep == [](MergedBatch) /\ [][Ids(store) \subseteq Ids(store')]_vars

\* C3 witness: a committed batch updated a row in place with new values,
\* inserted another, and left a third row, not in the batch, alone
C3_Witness ==
    /\ saved = <<TRUE>>
    /\ inserted >= 1
    /\ \E i \in 1..Len(df) : \E old \in before :
          old.osm_id = df[i].osm_id /\ old # RowOf(df[i]) /\ RowOf(df[i]) \in store
    /\ \E row \in before : row.osm_id \notin BatchIds /\ row \in store

\* the rows after upserting the records 1..n of the batch into t
RECURSIVE UpsertedUpTo(_, _)
UpsertedUpTo(t, n) ==
    IF n = 0 THEN t
    ELSE {row \in UpsertedUpTo(t, n - 1) : row.osm_id # df[n].osm_id} \cup {RowOf(df[n])}

\* C4: the merge is all-or-nothing: until save_to_db returns True the rows of
\* toll_booths are those before the batch; when a row's upsert fails (the
\* first, a middle or the last row) save_to_db returns False with none of the
\* earlier upserts committed; when no row fails it returns True with all of
\* them committed.
C4_AllOrNothing ==
    /\ saved # <<TRUE>> => store = before
    /\ Happened("db_row_failed") => saved = <<FALSE>> /\ store = before
    /\ (pc = "exited" /\ Happened("db_begin") /\ ~Happened("db_row_failed")) =>
            saved = <<TRUE>> /\ store = UpsertedUpTo(before, Len(df))
    /\ saved = <<TRUE>> => idx = Len(df) /\ store = UpsertedUpTo(before, Len(df))

\* C4 witness: the upsert of the middle row of a batch of three failed after
\* the first row's upsert had changed the table inside the transaction
C4_Witness ==
    /\ pc = "exited"
    /\ Happened("db_row_failed")
    /\ Len(df) = 3
    /\ idx = 1
    /\ UpsertedUpTo(before, 1) # before
    /\ saved = <<FALSE>>

\* the events of a failed database step
DbFailures == {"db_connect_failed", "db_create_table_failed", "db_row_failed"}

\* C5: a run exits with a non-zero status exactly when the fetch failed, or no
\* record was left after dropping those without latitude or longitude, or the
\* database connection, table creation or merge failed; a run whose CSV write
\* failed goes on to the database step and exits with status zero unless that
\* step fails.
C5_ExitStatus ==
    pc = "exited" =>
        /\ exit_code \in {<<0>>, <<1>>}
        /\ exit_code # <<0>> <=>
              \/ Happened("fetch_failed")
              \/ Happened("match_done") /\ ValidRows = {}
              \/ \E e \in DbFailures : Happened(e)
        /\ Happened("csv_failed") =>
              /\ Happened("db_connect") \/ Happened("db_connect_failed")
              /\ exit_code = <<0>> <=> Happened("db_commit")

\* C5 witness: a run whose CSV write failed has ended with status zero
C5_Witness ==
    /\ pc = "exited"
    /\ Happened("csv_failed")
    /\ Happened("db_commit")
    /\ exit_code = <<0>>

\* the events of the flat-file write and of the database step
PersistEvents ==
    {"csv_start", "csv_ok", "csv_failed", "db_connect", "db_connect_failed",
     "db_create_table", "db_create_table_failed", "db_begin", "db_row_failed",
     "db_commit"}

\* event a happened before position i of the trace
Earlier(a, i) == \E j \in 1..(i - 1) : trace[j] = a

\* C6: matching starts only after the fetch succeeded; the flat-file write and
\* every database operation start only after matching and the null-coordinate
\* filter are done with at least one valid record; after a failed fetch or an
\* empty filtered result (also with no toll-booth point at all) the flat file
\* is not written and no database operation is attempted.
C6_StagesOrdered ==
    /\ \A i \in 1..Len(trace) :
          /\ trace[i] = "match_start" => Earlier("fetch_ok", i)
          /\ trace[i] \in {"dropna_done", "dropna_raised"} => Earlier("match_done", i)
          /\ trace[i] \in PersistEvents =>
                /\ Earlier("fetch_ok", i)
                /\ Earlier("match_done", i)
                /\ Earlier("dropna_done", i)
                /\ ValidRows # {}
    /\ pc \in {"save_to_db", "create_table", "upsert"} =>
          Happened("dropna_done") /\ ValidRows # {}
    /\ (Happened("fetch_failed") \/ (Happened("match_done") /\ ValidRows = {})) =>
          /\ \A i \in 1..Len(trace) : trace[i] \notin PersistEvents
          /\ pc \notin {"save_to_db", "create_table", "upsert"}
          /\ csv = <<>>
          /\ txn = before
          /\ store = before

\* C6 witness: a run whose toll booths all lacked a coordinate ended at the
\* empty check, before the flat-file write and the database step
C6_Witness ==
    /\ pc = "exited"
    /\ Happened("no_valid_records")
    /\ Len(rows) >= 1
    /\ ValidRows = {}
    /\ csv = <<>>
    /\ store = before

\* C9: the records written to the flat file and those handed to the database
\* merge are exactly the Matcher's records that have both coordinates, each
\* unmodified; no record with a null latitude or longitude is written or
\* upserted.
C9_OnlyValidRecordsPersisted ==
    /\ \A i \in 1..Len(csv) : csv[i] \in ValidRows
    /\ Happened("csv_ok") =>
          {csv[i] : i \in 1..Len(csv)} = ValidRows /\ Len(csv) = Cardinality(ValidRows)
    /\ pc \in {"save_to_db", "create_table", "upsert"} \/ saved # <<>> =>
          {df[i] : i \in 1..Len(df)} = ValidRows /\ Len(df) = Cardinality(ValidRows)
    /\ \A row \in txn \cup store :
          /\ row.lat # None /\ row.lon # None
          /\ row \in before \/ \E r \in ValidRows : row = RowOf(r)

\* C9 witness: of a toll booth with both coordinates and one without its
\* longitude, only the first was written to the flat file and committed
C9_Witness ==
    /\ saved = <<TRUE>>
    /\ \E i \in 1..Len(rows) : rows[i].lat # None /\ rows[i].lon = None
    /\ Len(df) >= 1
    /\ Len(df) < Len(rows)
    /\ csv = df
    /\ \A i \in 1..Len(df) : RowOf(df[i]) \in store

====
